---- MODULE Spec2Model ----
(***************************************************************************)
(* A model of the active learning loop of MDALT: mdalth/utils.py,          *)
(* mdalth/learning.py (Config, Learner, Evaluator),                        *)
(* mdalth/querying_wrappers.py and tmp/stopping/stoppers.py.               *)
(*                                                                         *)
(* Numbers.  A ProportionOrInteger is a Python float or int.  It is kept   *)
(* as an exact fraction [num, den] with den > 0; an int k is [k, 1].  The  *)
(* arithmetic is exact: the rounding of a float product is not modelled.   *)
(* An Optional value is a sequence: << >> is None, <<v>> is the value v.   *)
(***************************************************************************)
EXTENDS Integers, Sequences, FiniteSets, TLC

VARIABLES
    ucall,      \* the pending call of a utility function: its name and arguments
    uret,       \* what that call returned or raised
    config,     \* the Config object
    learner,    \* the Learner: constructed?, iteration counter, LearnerState
    pool,       \* the Learner's Pool
    disk,       \* the run directory
    evaluator,  \* the Evaluator: constructed?, iteration counter, loaded Config
    epool,      \* the Evaluator's Pool
    ret,        \* the last operation invoked on an object and the exception it raised
    trace,      \* the calls the last Learner operation made, in the order it made them
    resumed,    \* what Learner.load_from_disk built: None, or the learner and its pool
    stopper,    \* a stopper object of stoppers.py: its parameters and its window
    stopped     \* what the last call of the stopper returned

vars ==
    <<ucall, uret, config, learner, pool, disk, evaluator, epool, ret, trace, resumed,
      stopper, stopped>>

uvars ==
    <<ucall, uret>>

svars ==
    <<stopper, stopped>>

(***************************************************************************)
(* Bounds of the model.                                                    *)
(***************************************************************************)
MaxRows ==
    4

MaxCount ==
    2

MaxTotal ==
    5

MaxArg ==
    6

MaxWindows ==
    3

MaxCalls ==
    4

MaxFiles ==
    3

(***************************************************************************)
(* Values.                                                                 *)
(***************************************************************************)
None ==
    << >>

Some(v) ==
    <<v>>

Q(n, d) ==
    [num |-> n, den |-> d]

\* float.is_integer / int.is_integer
is_integer(x) ==
    x.num % x.den = 0

\* Python's int(x): truncation toward zero
int(x) ==
    IF x.num >= 0 THEN x.num \div x.den ELSE -((-x.num) \div x.den)

\* the mathematical floor of x
Floor(x) ==
    x.num \div x.den

\* x * total for an integer total
Times(x, total) ==
    Q(x.num * total, x.den)

Min(a, b) ==
    IF a <= b THEN a ELSE b

Range(s) ==
    {s[j] : j \in 1..Len(s)}

Ok(v) ==
    [err |-> "none", val |-> v]

Raise(e) ==
    [err |-> e, val |-> 0]

(***************************************************************************)
(* mdalth/learning.py: compute_total_al_iterations.  Python's divmod is    *)
(* the floored division, as \div and % are.                                *)
(***************************************************************************)
compute_total_al_iterations_floor(n_rows, n_start, n_query) ==
    (n_rows - n_start) \div n_query

compute_total_al_iterations(n_rows, n_start, n_query) ==
    LET q == (n_rows - n_start) \div n_query
        r == (n_rows - n_start) % n_query
    IN  IF r = 0 THEN q ELSE q + 1

(***************************************************************************)
(* mdalth/utils.py: proportion_or_integer_to_int.                          *)
(***************************************************************************)
proportion_or_integer_to_int_strict(x, total) ==
    IF x.num > x.den /\ is_integer(x)
    THEN Ok(int(x))
    ELSE IF 0 <= x.num /\ x.num <= x.den /\ total # None
         THEN Ok(int(Times(x, total[1])))
         ELSE Raise("RuntimeError")

proportion_or_integer_to_int(x, total) ==
    IF x.num >= x.den /\ is_integer(x)
    THEN Ok(int(x))
    ELSE IF 0 <= x.num /\ x.num <= x.den /\ total # None
         THEN Ok(int(Times(x, total[1])))
         ELSE Raise("RuntimeError")

(***************************************************************************)
(* Text files of integers: numpy.savetxt(path, batch, fmt="%i") writes one *)
(* decimal numeral per line, numpy.loadtxt reads them back.  A numeral is  *)
(* its sequence of digits.                                                 *)
(***************************************************************************)
RECURSIVE Digits(_)
Digits(n) ==
    IF n < 10 THEN <<n>> ELSE Append(Digits(n \div 10), n % 10)

RECURSIVE Number(_)
Number(ds) ==
    IF Len(ds) = 0 THEN 0 ELSE 10 * Number(SubSeq(ds, 1, Len(ds) - 1)) + ds[Len(ds)]

savetxt(batch) ==
    [j \in 1..Len(batch) |-> Digits(batch[j])]

loadtxt(file) ==
    [j \in 1..Len(file) |-> Number(file[j])]

\* the number of dimensions of the array numpy.loadtxt returns: a file of one
\* line gives a 0-dimensional array
loadtxt_ndim(file) ==
    IF Len(file) = 1 THEN 0 ELSE 1

(***************************************************************************)
(* mdalth/utils.py: get_highest_path.  A path is the characters of its     *)
(* final component, a collection of paths the sequence it iterates in.     *)
(***************************************************************************)
DigitChars ==
    <<"0", "1", "2", "3", "4", "5", "6", "7", "8", "9">>

DigitOf ==
    [c \in Range(DigitChars) |-> (CHOOSE j \in 1..Len(DigitChars) : DigitChars[j] = c) - 1]

\* pathlib's PurePath.stem: the final component without its last suffix
stem(name) ==
    LET dots == {j \in 2..Len(name) : name[j] = "."}
    IN  IF dots = {} THEN name
        ELSE SubSeq(name, 1, (CHOOSE j \in dots : \A i \in dots : i <= j) - 1)

\* str.lstrip(chars) and str.rstrip(chars): chars is a set of characters
RECURSIVE lstrip(_, _)
lstrip(str, chars) ==
    IF Len(str) > 0 /\ str[1] \in Range(chars) THEN lstrip(Tail(str), chars) ELSE str

RECURSIVE rstrip(_, _)
rstrip(str, chars) ==
    IF Len(str) > 0 /\ str[Len(str)] \in Range(chars)
    THEN rstrip(SubSeq(str, 1, Len(str) - 1), chars)
    ELSE str

\* int(str) of a string of decimal digits; any other string is a ValueError
int_str(str) ==
    IF Len(str) > 0 /\ \A j \in 1..Len(str) : str[j] \in DOMAIN DigitOf
    THEN Ok(Number([j \in 1..Len(str) |-> DigitOf[str[j]]]))
    ELSE Raise("ValueError")

\* a sort key that reads the digits as text: their value as a fraction 0.d1d2d3
path_key_text(name, lstrip_, rstrip_) ==
    LET str == rstrip(lstrip(stem(name), lstrip_), rstrip_)
        k == int_str(str)
    IN  IF k.err # "none" THEN k
        ELSE Ok(k.val * (IF Len(str) = 1 THEN 100 ELSE IF Len(str) = 2 THEN 10 ELSE 1))

\* the sort key: lambda p: int(p.stem.lstrip(lstrip).rstrip(rstrip))
path_key(name, lstrip_, rstrip_) ==
    int_str(rstrip(lstrip(stem(name), lstrip_), rstrip_))

\* get_highest_path on a collection: list(sorted(files, key=...))[-1].  sorted is
\* stable, so of the paths with the greatest key the last one iterated ends last
get_highest_path(files, lstrip_, rstrip_) ==
    LET key == [j \in 1..Len(files) |-> path_key(files[j], lstrip_, rstrip_)]
    IN  IF \E j \in 1..Len(files) : key[j].err # "none"
        THEN [err |-> "ValueError", val |-> << >>]
        ELSE IF Len(files) = 0
        THEN [err |-> "IndexError", val |-> << >>]
        ELSE LET top == CHOOSE j \in 1..Len(files) :
                            /\ \A i \in 1..Len(files) : key[i].val <= key[j].val
                            /\ \A i \in (j + 1)..Len(files) : key[i].val < key[j].val
             IN  [err |-> "none", val |-> files[top]]

(***************************************************************************)
(* mdalth/learning.py: Config.  The fields val_set_size, learn, evaluate,  *)
(* resume and resume_from_checkpoint are read by no operation modelled     *)
(* here and are left out.                                                  *)
(***************************************************************************)
\* the values a caller gives n_start, n_query and n_iterations:
\* -1, 0, 1, ..., MaxCount and 0.5, 1.5, ...
Values ==
    {Q(k, 1) : k \in -1..MaxCount} \cup {Q(2 * k + 1, 2) : k \in 0..(MaxCount - 1)}

\* the objects the dataclass constructor builds before __post_init__ runs
RawConfigs ==
    [n_rows : {None} \cup {Some(n) : n \in 0..MaxRows},
     n_start : Values, n_query : Values, n_iterations : Values,
     configured : {FALSE}]

\* Config.configure without its assertion
configure_unguarded(c, n_rows) ==
    LET s == proportion_or_integer_to_int(c.n_start, Some(n_rows))
        c1 == [c EXCEPT !.n_rows = Some(n_rows)]
    IN  IF s.err # "none" THEN [cfg |-> c1, err |-> s.err, warn |-> FALSE] ELSE
        LET q == proportion_or_integer_to_int(c.n_query, Some(n_rows))
            c2 == [c1 EXCEPT !.n_start = Q(s.val, 1)]
        IN  IF q.err # "none" THEN [cfg |-> c2, err |-> q.err, warn |-> FALSE] ELSE
            LET c3 == [c2 EXCEPT !.n_query = Q(q.val, 1)]
            IN  IF q.val = 0 THEN [cfg |-> c3, err |-> "ZeroDivisionError", warn |-> FALSE] ELSE
                LET total == compute_total_al_iterations(n_rows, s.val, q.val)
                    i == proportion_or_integer_to_int(c.n_iterations, Some(total))
                IN  IF i.err # "none" THEN [cfg |-> c3, err |-> i.err, warn |-> FALSE] ELSE
                    [cfg |-> [c3 EXCEPT !.n_iterations = Q(Min(i.val, total), 1),
                                        !.configured = TRUE],
                     err |-> "none",
                     warn |-> i.val > total]

\* Config.configure without the clamp of n_iterations
configure_unclamped(c, n_rows) ==
    IF c.configured THEN [cfg |-> c, err |-> "AssertionError", warn |-> FALSE] ELSE
    LET s == proportion_or_integer_to_int(c.n_start, Some(n_rows))
        c1 == [c EXCEPT !.n_rows = Some(n_rows)]
    IN  IF s.err # "none" THEN [cfg |-> c1, err |-> s.err, warn |-> FALSE] ELSE
        LET q == proportion_or_integer_to_int(c.n_query, Some(n_rows))
            c2 == [c1 EXCEPT !.n_start = Q(s.val, 1)]
        IN  IF q.err # "none" THEN [cfg |-> c2, err |-> q.err, warn |-> FALSE] ELSE
            LET c3 == [c2 EXCEPT !.n_query = Q(q.val, 1)]
            IN  IF q.val = 0 THEN [cfg |-> c3, err |-> "ZeroDivisionError", warn |-> FALSE] ELSE
                LET total == compute_total_al_iterations(n_rows, s.val, q.val)
                    i == proportion_or_integer_to_int(c.n_iterations, Some(total))
                IN  IF i.err # "none" THEN [cfg |-> c3, err |-> i.err, warn |-> FALSE] ELSE
                    [cfg |-> [c3 EXCEPT !.n_iterations = Q(i.val, 1),
                                        !.configured = TRUE],
                     err |-> "none",
                     warn |-> FALSE]

\* Config.configure: the object after the call and the exception raised.  The
\* fields are assigned one by one, so a call that raises keeps the assignments
\* made before the raise.
configure(c, n_rows) ==
    IF c.configured THEN [cfg |-> c, err |-> "AssertionError", warn |-> FALSE] ELSE
    LET s == proportion_or_integer_to_int(c.n_start, Some(n_rows))
        c1 == [c EXCEPT !.n_rows = Some(n_rows)]
    IN  IF s.err # "none" THEN [cfg |-> c1, err |-> s.err, warn |-> FALSE] ELSE
        LET q == proportion_or_integer_to_int(c.n_query, Some(n_rows))
            c2 == [c1 EXCEPT !.n_start = Q(s.val, 1)]
        IN  IF q.err # "none" THEN [cfg |-> c2, err |-> q.err, warn |-> FALSE] ELSE
            LET c3 == [c2 EXCEPT !.n_query = Q(q.val, 1)]
            IN  IF q.val = 0 THEN [cfg |-> c3, err |-> "ZeroDivisionError", warn |-> FALSE] ELSE
                LET total == compute_total_al_iterations(n_rows, s.val, q.val)
                    i == proportion_or_integer_to_int(c.n_iterations, Some(total))
                IN  IF i.err # "none" THEN [cfg |-> c3, err |-> i.err, warn |-> FALSE] ELSE
                    [cfg |-> [c3 EXCEPT !.n_iterations = Q(Min(i.val, total), 1),
                                        !.configured = TRUE],
                     err |-> "none",
                     warn |-> i.val > total]

\* Config.__post_init__: configure when n_rows is truthy (neither None nor 0)
post_init(c) ==
    IF c.n_rows # None /\ c.n_rows # Some(0)
    THEN configure(c, c.n_rows[1])
    ELSE [cfg |-> c, err |-> "none", warn |-> FALSE]

\* the Config objects whose construction returns
NewConfigs ==
    {post_init(c).cfg : c \in {r \in RawConfigs : post_init(r).err = "none"}}

\* the feasible total of a configured Config, from its resolved fields
Total(c) ==
    compute_total_al_iterations(c.n_rows[1], c.n_start.num, c.n_query.num)

\* what an operation leaves in ret: its name, the exception raised, and whether
\* it emitted a warning
Ret(op, e) ==
    [op |-> op, err |-> e, warn |-> FALSE]

NoOp ==
    Ret("none", "none")

\* config.configure(n_rows)
ConfigConfigure ==
    \E n \in 0..MaxRows :
        LET r == configure(config, n)
        IN  /\ config' = r.cfg
            /\ ret' = [op |-> "Config.configure", err |-> r.err, warn |-> r.warn]
            /\ trace' = << >>
            /\ UNCHANGED <<learner, pool, disk, evaluator, epool, uvars, svars, resumed>>

(***************************************************************************)
(* mdalth.helpers.Pool: the rows of a dataset split into a labeled and an  *)
(* unlabeled index array.  Rows are numbered 0..num_rows-1.                *)
(***************************************************************************)
Pool(num_rows) ==
    [num_rows |-> num_rows,
     labeled_idx |-> << >>,
     unlabeled_idx |-> [j \in 1..num_rows |-> j - 1]]

\* Pool.label that forgets to take the batch out of the unlabeled indices
label_keeps_unlabeled(p, batch) ==
    IF \A j \in 1..Len(batch) : batch[j] \in Range(p.unlabeled_idx)
    THEN [pool |-> [p EXCEPT !.labeled_idx = @ \o batch], err |-> "none"]
    ELSE [pool |-> p, err |-> "InvalidInput"]

\* Pool.label: move the batch from unlabeled to labeled; a batch holding an index
\* that is not unlabeled is rejected and the pool left as it was
label(p, batch) ==
    IF \A j \in 1..Len(batch) : batch[j] \in Range(p.unlabeled_idx)
    THEN [pool |-> [p EXCEPT !.labeled_idx = @ \o batch,
                             !.unlabeled_idx = SelectSeq(@, LAMBDA i : i \notin Range(batch))],
          err |-> "none"]
    ELSE [pool |-> p, err |-> "InvalidInput"]

(***************************************************************************)
(* mdalth.querying.RandomQuerier: n distinct candidates in any order, or   *)
(* InvalidInput when n exceeds the number of candidates.  The operator is  *)
(* the set of outcomes of one call.                                        *)
(***************************************************************************)
Arrangements(S, n) ==
    {b \in [1..n -> S] : \A i, j \in 1..n : i # j => b[i] # b[j]}

RandomQuerier(n, candidates) ==
    IF n > Len(candidates)
    THEN {[err |-> "InvalidInput", val |-> << >>]}
    ELSE {[err |-> "none", val |-> b] : b \in Arrangements(Range(candidates), n)}

\* querying_wrappers.py: RandomQuerierWrapper.__call__
RandomQuerierWrapper(n_query, p) ==
    RandomQuerier(n_query, p.unlabeled_idx)

(***************************************************************************)
(* mdalth.querying.UncertaintyQuerier, MarginQuerier, EntropyQuerier: the  *)
(* n rows of a matrix of classwise probabilities that rank highest, given  *)
(* as row positions 0..num-1, or InvalidInput when n exceeds the number of *)
(* rows.  The probabilities are what the model predicts, so every ranking  *)
(* can come out.                                                           *)
(***************************************************************************)
ClasswiseQuerier(n, num) ==
    IF n > num
    THEN {[err |-> "InvalidInput", val |-> << >>]}
    ELSE {[err |-> "none", val |-> b] : b \in Arrangements(0..(num - 1), n)}

\* ClasswiseProbsQuerierWrapper.__call__ that returns the querier's row positions
\* as they are
ClasswiseProbsQuerierWrapper_unmapped(n_query, p) ==
    {[err |-> o.err, val |-> o.val, idx_ |-> o.val] :
        o \in ClasswiseQuerier(n_query, Len(p.unlabeled_idx))}

\* querying_wrappers.py: ClasswiseProbsQuerierWrapper.__call__.  The rows
\* predicted on are pool.dataset.select(pool.unlabeled_idx), one per unlabeled
\* index; idx_ is what the wrapped querier returned, val what the wrapper returns
ClasswiseProbsQuerierWrapper(n_query, p) ==
    LET idx_map == [i \in 0..(Len(p.unlabeled_idx) - 1) |-> p.unlabeled_idx[i + 1]]
    IN  {[err |-> o.err,
          val |-> [j \in 1..Len(o.val) |-> idx_map[o.val[j]]],
          idx_ |-> o.val] :
            o \in ClasswiseQuerier(n_query, Len(p.unlabeled_idx))}

\* querying_wrappers.py: querier_wrapper_factory, by the class of the querier
querier_wrapper_factory(querier) ==
    IF querier = "RandomQuerier"
    THEN [err |-> "none", val |-> "RandomQuerierWrapper"]
    ELSE IF querier \in {"UncertaintyQuerier", "MarginQuerier", "EntropyQuerier"}
    THEN [err |-> "none", val |-> "ClasswiseProbsQuerierWrapper"]
    ELSE [err |-> "TypeError", val |-> "none"]

(***************************************************************************)
(* mdalth.stopping: a Stopper is called without arguments and says whether *)
(* to halt.  NullStopper always says no; "Stopper" is a caller's own that  *)
(* always says yes.                                                        *)
(***************************************************************************)
StopperCall(kind) ==
    kind # "NullStopper"

(***************************************************************************)
(* The run directory (mdalth.helpers.IOHelper gives the paths; a path is   *)
(* a function of the iteration alone, distinct iterations have distinct    *)
(* paths).  Per-iteration files are functions from the iterations that     *)
(* have the file to its content.  writes counts the times the             *)
(* configuration file and the training-dataset snapshot were written.     *)
(***************************************************************************)
EmptyDisk ==
    [root |-> FALSE,
     config |-> None,
     tr_dataset |-> None,
     ts_dataset |-> None,
     writes |-> [config |-> 0, tr_dataset |-> 0],
     batch |-> << >>,
     model |-> << >>,
     trainer_output |-> << >>,
     checkpoints |-> {},
     test_metrics |-> << >>]

\* the file (or directory) at path k written with content v
Write(files, k, v) ==
    (k :> v) @@ files

\* Learner.save_to_disk that files every batch under iteration 0
save_to_disk_one_path(d, iteration, c, num_rows, batch, model, train_output) ==
    LET d0 == IF iteration = 0
              THEN [d EXCEPT !.root = TRUE,
                             !.config = Some(c),
                             !.tr_dataset = Some(num_rows),
                             !.writes = [config |-> @.config + 1,
                                         tr_dataset |-> @.tr_dataset + 1]]
              ELSE d
    IN  [d0 EXCEPT !.batch = Write(@, 0, savetxt(batch)),
                   !.model = Write(@, iteration, model),
                   !.trainer_output = Write(@, iteration, train_output)]

\* Learner.save_to_disk that writes the configuration and the dataset every time
save_to_disk_every_time(d, iteration, c, num_rows, batch, model, train_output) ==
    LET d0 == [d EXCEPT !.root = TRUE,
                        !.config = Some(c),
                        !.tr_dataset = Some(num_rows),
                        !.writes = [config |-> @.config + 1,
                                    tr_dataset |-> @.tr_dataset + 1]]
    IN  [d0 EXCEPT !.batch = Write(@, iteration, savetxt(batch)),
                   !.model = Write(@, iteration, model),
                   !.trainer_output = Write(@, iteration, train_output)]

\* Learner.save_to_disk
save_to_disk(d, iteration, c, num_rows, batch, model, train_output) ==
    LET d0 == IF iteration = 0
              THEN [d EXCEPT !.root = TRUE,
                             !.config = Some(c),
                             !.tr_dataset = Some(num_rows),
                             !.writes = [config |-> @.config + 1,
                                         tr_dataset |-> @.tr_dataset + 1]]
              ELSE d
    IN  [d0 EXCEPT !.batch = Write(@, iteration, savetxt(batch)),
                   !.model = Write(@, iteration, model),
                   !.trainer_output = Write(@, iteration, train_output)]

(***************************************************************************)
(* mdalth/learning.py: Learner.  A trained model is the set of rows it was *)
(* trained on (training and validation split together); a training output *)
(* is the number of those rows.  Training itself always returns, and       *)
(* leaves the checkpoints directory it was pointed at.                     *)
(***************************************************************************)
NoLearner ==
    [alive |-> FALSE, iteration |-> 0, state |-> None,
     querier |-> "RandomQuerierWrapper", stopper |-> "NullStopper"]

\* the queriers and the stoppers a caller hands to Learner: "Querier" is one of
\* a class the wrapper factory does not know
Queriers ==
    {"RandomQuerier", "UncertaintyQuerier", "Querier"}

Stoppers ==
    {"NullStopper", "Stopper"}

\* an entry of the trace for a step of the iteration at counter value at
Step(fn, at) ==
    [fn |-> fn, at |-> at]

\* Learner.train; output_dir is the iteration whose checkpoints path the trainer
\* was pointed at
train(p, batch, iteration, d) ==
    LET l == label(p, batch)
    IN  IF l.err # "none"
        THEN [pool |-> p, disk |-> d, model |-> {}, train_output |-> 0,
              output_dir |-> iteration, err |-> l.err]
        ELSE [pool |-> l.pool,
              disk |-> [d EXCEPT !.checkpoints = @ \cup {iteration}],
              model |-> Range(l.pool.labeled_idx),
              train_output |-> Len(l.pool.labeled_idx),
              output_dir |-> iteration,
              err |-> "none"]

\* Learner.post that leaves the checkpoints directory where it is
post_keeps(d, iteration) ==
    [disk |-> d, path |-> iteration, err |-> "none"]

\* Learner.post: shutil.rmtree of the iteration's checkpoints directory; path is
\* the iteration whose checkpoints path was given to rmtree
post(d, iteration) ==
    IF iteration \in d.checkpoints
    THEN [disk |-> [d EXCEPT !.checkpoints = @ \ {iteration}], path |-> iteration,
          err |-> "none"]
    ELSE [disk |-> d, path |-> iteration, err |-> "FileNotFoundError"]

\* Learner.stop
stop(l) ==
    StopperCall(l.stopper)

\* Learner.query_first: a RandomQuerier of its own; call is the querier called,
\* with the count it was given
query_first(c, p) ==
    {[err |-> o.err, val |-> o.val,
      call |-> [fn |-> "RandomQuerier", n |-> c.n_start.num, model |-> None]] :
        o \in RandomQuerier(c.n_start.num, p.unlabeled_idx)}

\* Learner.query that asks for n_start rows
query_n_start(l, c, p) ==
    LET outcomes == IF l.querier = "RandomQuerierWrapper"
                    THEN RandomQuerierWrapper(c.n_start.num, p)
                    ELSE ClasswiseProbsQuerierWrapper(c.n_start.num, p)
    IN  {[err |-> o.err, val |-> o.val,
          call |-> [fn |-> l.querier, n |-> c.n_start.num,
                    model |-> Some(l.state[1].best_model)]] :
            o \in outcomes}

\* Learner.query: self.querier(self.config.n_query, self.state.best_model); call
\* is the wrapper called, with the count and the model it was given
query(l, c, p) ==
    LET outcomes == IF l.querier = "RandomQuerierWrapper"
                    THEN RandomQuerierWrapper(c.n_query.num, p)
                    ELSE ClasswiseProbsQuerierWrapper(c.n_query.num, p)
    IN  {[err |-> o.err, val |-> o.val,
          call |-> [fn |-> l.querier, n |-> c.n_query.num,
                    model |-> Some(l.state[1].best_model)]] :
            o \in outcomes}

\* Learner.__len__
len(c) ==
    c.n_iterations.num

\* Learner.__call__ that runs whatever the counter is
call_rejected_never(l) ==
    FALSE

\* Learner.__call__: "The zeroth iteration has already been run."
call_rejected(l) ==
    l.iteration # 0

\* Learner.__next__: "The zeroth iteration has not been run."
next_rejected(l) ==
    l.iteration = 0

\* Learner.__next__ that stops one iteration early
next_exhausted_early(l, c) ==
    l.iteration >= len(c)

\* Learner.__next__: raise StopIteration
next_exhausted(l, c) ==
    l.iteration > len(c)

\* The body shared by Learner.__call__ and Learner.__next__ once the batch is
\* queried: train, save_to_disk, post, advance the counter, store the state.
\* A raise leaves what was done before it.  trace lists the steps entered.
iteration_body(l, c, p, d, batch) ==
    LET t == train(p, batch, l.iteration, d)
    IN  IF t.err # "none"
        THEN [learner |-> l, pool |-> t.pool, disk |-> t.disk, err |-> t.err,
              trace |-> <<Step("Pool.label", l.iteration)>>]
        ELSE
        LET saved == save_to_disk(t.disk, l.iteration, c, p.num_rows, batch,
                                  t.model, t.train_output)
            cleaned == post(saved, l.iteration)
            steps == <<Step("Pool.label", l.iteration),
                       Step("Trainer.train", t.output_dir),
                       Step("Learner.save_to_disk", l.iteration),
                       Step("shutil.rmtree", cleaned.path)>>
        IN  IF cleaned.err # "none"
            THEN [learner |-> l, pool |-> t.pool, disk |-> cleaned.disk, err |-> cleaned.err,
                  trace |-> steps]
            ELSE [learner |-> [l EXCEPT !.iteration = @ + 1,
                                        !.state = Some([batch |-> batch,
                                                        iteration |-> l.iteration + 1,
                                                        best_model |-> t.model])],
                  pool |-> t.pool,
                  disk |-> cleaned.disk,
                  err |-> "none",
                  trace |-> Append(steps, Step("iteration += 1", l.iteration))]

\* an operation of the Learner that raises e after the calls tr, with nothing
\* changed
LearnerRaises(op, e, tr) ==
    /\ ret' = Ret(op, e)
    /\ trace' = tr
    /\ UNCHANGED <<config, learner, pool, disk, evaluator, epool, uvars, svars, resumed>>

\* an operation of the Learner that queried (call) and ran the iteration body,
\* with outcome r
LearnerRan(op, r, call) ==
    /\ learner' = r.learner
    /\ pool' = r.pool
    /\ disk' = r.disk
    /\ ret' = Ret(op, r.err)
    /\ trace' = <<call>> \o r.trace
    /\ UNCHANGED <<config, evaluator, epool, uvars, svars, resumed>>

\* Learner(pool, config, io_helper, trainer_fact) over a fresh run directory (so
\* io_helper.valid holds), with a configured Config and the pool it was
\* configured against: config.n_rows rows, none labeled.  querier and stopper
\* are left None: a RandomQuerier and a NullStopper
NewLearner ==
    /\ ~learner.alive
    /\ config.configured
    /\ ~disk.root
    /\ learner' = [alive |-> TRUE, iteration |-> 0, state |-> None,
                   querier |-> querier_wrapper_factory("RandomQuerier").val,
                   stopper |-> "NullStopper"]
    /\ pool' = Pool(config.n_rows[1])
    /\ ret' = Ret("Learner.__init__", "none")
    /\ trace' = << >>
    /\ UNCHANGED <<config, disk, evaluator, epool, uvars, svars, resumed>>

\* Learner(pool, config, io_helper, trainer_fact, querier, stopper)
NewLearnerWith ==
    /\ ~learner.alive
    /\ config.configured
    /\ ~disk.root
    /\ \E querier \in Queriers, stopper_ \in Stoppers :
          LET w == querier_wrapper_factory(querier)
          IN  IF w.err # "none"
              THEN /\ ret' = Ret("Learner.__init__", w.err)
                   /\ UNCHANGED <<learner, pool>>
              ELSE /\ learner' = [alive |-> TRUE, iteration |-> 0, state |-> None,
                                  querier |-> w.val, stopper |-> stopper_]
                   /\ pool' = Pool(config.n_rows[1])
                   /\ ret' = Ret("Learner.__init__", "none")
    /\ trace' = << >>
    /\ UNCHANGED <<config, disk, evaluator, epool, uvars, svars, resumed>>

\* learner()
LearnerCall ==
    /\ learner.alive
    /\ IF call_rejected(learner)
       THEN LearnerRaises("Learner.__call__", "RuntimeError", << >>)
       ELSE \E q \in query_first(config, pool) :
               IF q.err # "none"
               THEN LearnerRaises("Learner.__call__", q.err, <<q.call>>)
               ELSE LearnerRan("Learner.__call__",
                               iteration_body(learner, config, pool, disk, q.val), q.call)

\* next(learner) of a Learner whose __next__ asks the stopper first
LearnerNext_stopping ==
    /\ learner.alive
    /\ IF next_rejected(learner)
       THEN LearnerRaises("Learner.__next__", "RuntimeError", << >>)
       ELSE IF next_exhausted(learner, config) \/ stop(learner)
       THEN LearnerRaises("Learner.__next__", "StopIteration", << >>)
       ELSE \E q \in query(learner, config, pool) :
               IF q.err # "none"
               THEN LearnerRaises("Learner.__next__", q.err, <<q.call>>)
               ELSE LearnerRan("Learner.__next__",
                               iteration_body(learner, config, pool, disk, q.val), q.call)

\* next(learner)
LearnerNext ==
    /\ learner.alive
    /\ IF next_rejected(learner)
       THEN LearnerRaises("Learner.__next__", "RuntimeError", << >>)
       ELSE IF next_exhausted(learner, config)
       THEN LearnerRaises("Learner.__next__", "StopIteration", << >>)
       ELSE \E q \in query(learner, config, pool) :
               IF q.err # "none"
               THEN LearnerRaises("Learner.__next__", q.err, <<q.call>>)
               ELSE LearnerRan("Learner.__next__",
                               iteration_body(learner, config, pool, disk, q.val), q.call)

\* learner.stop(), called by the caller
LearnerStop ==
    /\ learner.alive
    /\ ret' = Ret("Learner.stop", "none")
    /\ trace' = <<[fn |-> "Stopper.__call__", val |-> stop(learner)]>>
    /\ UNCHANGED <<config, learner, pool, disk, evaluator, epool, uvars, svars, resumed>>

(***************************************************************************)
(* A step of the Learner in which a call raises.  The calls that can are   *)
(* trainer.train(), with or without a checkpoint written before it raises, *)
(* the three writes of save_to_disk and the rmtree of post.  Nothing in    *)
(* __call__, __next__ or train catches an exception.                       *)
(***************************************************************************)
Faults ==
    {[fn |-> "Trainer.train", checkpoints |-> b] : b \in BOOLEAN}
        \cup {[fn |-> f, checkpoints |-> TRUE] :
                f \in {"np.savetxt", "save_pretrained", "save_with_pickle", "shutil.rmtree"}}

\* a step that counts the iteration before it trains: what it leaves when e is
\* raised
raised_counted(l, p, d, e, steps) ==
    [learner |-> [l EXCEPT !.iteration = @ + 1], pool |-> p, disk |-> d, err |-> e,
     trace |-> steps]

\* what __call__ and __next__ leave when e is raised out of them after the steps
\* entered: the learner as it was, the pool and the run directory as the steps
\* left them
raised(l, p, d, e, steps) ==
    [learner |-> l, pool |-> p, disk |-> d, err |-> e, trace |-> steps]

\* the body of Learner.__call__ and Learner.__next__ after the query, with the
\* call fault.fn raising
iteration_body_raising(l, c, p, d, batch, fault) ==
    LET t == train(p, batch, l.iteration, d)
        labeled == <<Step("Pool.label", l.iteration)>>
        trained == Append(labeled, Step("Trainer.train", t.output_dir))
    IN  IF t.err # "none" THEN raised(l, t.pool, t.disk, t.err, labeled)
        ELSE IF fault.fn = "Trainer.train"
        THEN raised(l, t.pool, IF fault.checkpoints THEN t.disk ELSE d, "Exception", trained)
        ELSE
        LET saved == save_to_disk(t.disk, l.iteration, c, p.num_rows, batch,
                                  t.model, t.train_output)
            written == IF fault.fn = "np.savetxt"
                       THEN [saved EXCEPT !.batch = t.disk.batch,
                                          !.model = t.disk.model,
                                          !.trainer_output = t.disk.trainer_output]
                       ELSE IF fault.fn = "save_pretrained"
                       THEN [saved EXCEPT !.model = t.disk.model,
                                          !.trainer_output = t.disk.trainer_output]
                       ELSE IF fault.fn = "save_with_pickle"
                       THEN [saved EXCEPT !.trainer_output = t.disk.trainer_output]
                       ELSE saved
            persisted == Append(trained, Step("Learner.save_to_disk", l.iteration))
        IN  IF fault.fn = "shutil.rmtree"
            THEN raised(l, t.pool, written, "OSError",
                        Append(persisted, Step("shutil.rmtree", l.iteration)))
            ELSE raised(l, t.pool, written, "OSError", persisted)

\* the last operation was a step of the Learner that a raising call ended
Uncaught ==
    /\ ret.op \in {"Learner.__call__", "Learner.__next__"}
    /\ ret.err \in {"Exception", "OSError"}

\* learner(), one of its calls raising
LearnerCallRaises ==
    /\ learner.alive
    /\ ~call_rejected(learner)
    /\ \E q \in query_first(config, pool), fault \in Faults :
          /\ q.err = "none"
          /\ LearnerRan("Learner.__call__",
                        iteration_body_raising(learner, config, pool, disk, q.val, fault),
                        q.call)

\* next(learner), one of its calls raising
LearnerNextRaises ==
    /\ learner.alive
    /\ ~next_rejected(learner)
    /\ ~next_exhausted(learner, config)
    /\ \E q \in query(learner, config, pool), fault \in Faults :
          /\ q.err = "none"
          /\ LearnerRan("Learner.__next__",
                        iteration_body_raising(learner, config, pool, disk, q.val, fault),
                        q.call)

(***************************************************************************)
(* Learner.load_from_disk.  The directory of an iteration exists once any  *)
(* file of the iteration does, its name is the iteration in decimal        *)
(* digits.  glob("*") gives the directories in some order; the order       *)
(* taken is ascending (get_highest_path sorts them).                       *)
(***************************************************************************)
iteration_dirs(d) ==
    DOMAIN d.batch \cup DOMAIN d.model \cup DOMAIN d.trainer_output \cup d.checkpoints
        \cup DOMAIN d.test_metrics

\* io_helper.iterations_path.glob("*"): the names of the iteration directories
iterations_glob(d) ==
    LET dirs == iteration_dirs(d)
        all == [j \in 1..(MaxCount + 2) |-> j - 1]
        listed == SelectSeq(all, LAMBDA i : i \in dirs)
    IN  [j \in 1..Len(listed) |->
            [i \in 1..Len(Digits(listed[j])) |-> DigitChars[Digits(listed[j])[i] + 1]]]

RECURSIVE concatenate(_)
concatenate(arrays) ==
    IF Len(arrays) = 0 THEN << >> ELSE arrays[1] \o concatenate(Tail(arrays))

\* Pool.from_pools(dataset, labeled_idx): the rows of labeled_idx labeled, the
\* others unlabeled
from_pools(num_rows, labeled_idx) ==
    [num_rows |-> num_rows,
     labeled_idx |-> labeled_idx,
     unlabeled_idx |-> SelectSeq([j \in 1..num_rows |-> j - 1],
                                 LAMBDA i : i \notin Range(labeled_idx))]

\* the counter Learner.load_from_disk computes from the highest directory name
resume_point(name) ==
    int_str(name).val - 1

\* Learner.load_from_disk(output_dir, config, trainer_fact, querier, stopper,
\* iteration): the learner and the pool it returns, or the exception it raises
load_from_disk(d, querier, stopper_, iteration) ==
    LET failed(e) == [err |-> e, learner |-> NoLearner, pool |-> Pool(0)]
        high == get_highest_path(iterations_glob(d), << >>, << >>)
        given == iteration # None /\ iteration[1] # 0
    IN  IF ~given /\ high.err # "none" THEN failed(high.err) ELSE
        LET it == IF given THEN iteration[1] ELSE resume_point(high.val)
        IN  IF d.tr_dataset = None THEN failed("FileNotFoundError")
            ELSE IF \E i \in 0..(it - 1) : i \notin DOMAIN d.batch THEN failed("FileNotFoundError")
            ELSE IF it <= 0 \/ \E i \in 0..(it - 1) : loadtxt_ndim(d.batch[i]) = 0
            THEN failed("ValueError")
            ELSE
            LET batches == [j \in 1..it |-> loadtxt(d.batch[j - 1])]
                w == querier_wrapper_factory(querier)
            IN  IF w.err # "none" THEN failed(w.err)
                ELSE IF it \notin DOMAIN d.model THEN failed("OSError")
                ELSE [err |-> "none",
                      learner |-> [alive |-> TRUE, iteration |-> it,
                                   state |-> Some([batch |-> batches[it],
                                                   iteration |-> it,
                                                   best_model |-> d.model[it]]),
                                   querier |-> w.val, stopper |-> stopper_],
                      pool |-> from_pools(d.tr_dataset[1], concatenate(batches))]

\* Learner.load_from_disk(output_dir, config, trainer_fact, iteration=iteration)
\* called on the run directory, querier and stopper left None
LoadFromDisk ==
    /\ \E iteration \in {None} \cup {Some(i) : i \in 0..MaxCount} :
          LET r == load_from_disk(disk, "RandomQuerier", "NullStopper", iteration)
          IN  /\ ret' = Ret("Learner.load_from_disk", r.err)
              /\ trace' = <<[fn |-> "Learner.load_from_disk", iteration |-> iteration]>>
              /\ resumed' = IF r.err = "none"
                            THEN Some([learner |-> r.learner, pool |-> r.pool])
                            ELSE resumed
    /\ UNCHANGED <<config, learner, pool, disk, evaluator, epool, uvars, svars>>

(***************************************************************************)
(* mdalth/learning.py: Evaluator.  The metrics of a model are the model's  *)
(* training rows (what tells one model from another).                      *)
(***************************************************************************)
NoEvaluator ==
    [alive |-> FALSE, iteration |-> 0, config |-> None]

\* Evaluator.save_to_disk that files every metrics file under iteration 0
Evaluator_save_to_disk_one_path(d, iteration, results) ==
    LET d0 == IF iteration = 0 THEN [d EXCEPT !.ts_dataset = Some("ts")] ELSE d
    IN  [d0 EXCEPT !.test_metrics = Write(@, 0, results)]

\* Evaluator.save_to_disk
Evaluator_save_to_disk(d, iteration, results) ==
    LET d0 == IF iteration = 0 THEN [d EXCEPT !.ts_dataset = Some("ts")] ELSE d
    IN  [d0 EXCEPT !.test_metrics = Write(@, iteration, results)]

EvaluatorRaises(e) ==
    /\ ret' = Ret("Evaluator.__next__", e)
    /\ trace' = << >>
    /\ UNCHANGED <<config, learner, pool, disk, evaluator, epool, uvars, svars, resumed>>

\* Evaluator(ts_trainer_fact, ts_dataset, io_helper): the run directory must
\* exist; the Config and the training dataset are loaded from it
NewEvaluator ==
    /\ ~evaluator.alive
    /\ IF disk.root /\ disk.config # None /\ disk.tr_dataset # None
       THEN /\ evaluator' = [alive |-> TRUE, iteration |-> 0, config |-> disk.config]
            /\ epool' = Pool(disk.tr_dataset[1])
            /\ ret' = Ret("Evaluator.__init__", "none")
       ELSE /\ ret' = Ret("Evaluator.__init__", "FileNotFoundError")
            /\ UNCHANGED <<evaluator, epool>>
    /\ trace' = << >>
    /\ UNCHANGED <<config, learner, pool, disk, uvars, svars, resumed>>

\* next(evaluator)
EvaluatorNext ==
    /\ evaluator.alive
    /\ LET it == evaluator.iteration
       IN  IF it > len(evaluator.config[1])
           THEN EvaluatorRaises("StopIteration")
           ELSE IF it \notin DOMAIN disk.batch
           THEN EvaluatorRaises("FileNotFoundError")
           ELSE
           LET l == label(epool, loadtxt(disk.batch[it]))
           IN  IF l.err # "none"
               THEN EvaluatorRaises(l.err)
               ELSE IF it \notin DOMAIN disk.model
               THEN /\ epool' = l.pool
                    /\ ret' = Ret("Evaluator.__next__", "FileNotFoundError")
                    /\ trace' = << >>
                    /\ UNCHANGED <<config, learner, pool, disk, evaluator, uvars, svars, resumed>>
               ELSE /\ epool' = l.pool
                    /\ disk' = Evaluator_save_to_disk(disk, it, disk.model[it])
                    /\ evaluator' = [evaluator EXCEPT !.iteration = @ + 1]
                    /\ ret' = Ret("Evaluator.__next__", "none")
                    /\ trace' = << >>
                    /\ UNCHANGED <<config, learner, pool, uvars, svars, resumed>>

(***************************************************************************)
(* src/tmp/stopping/stoppers.py.  A score is a float: an exact fraction in *)
(* lowest terms, or NaN, the fraction with denominator 0.  Every           *)
(* comparison with NaN is false and every sum with NaN is NaN.             *)
(***************************************************************************)
NaN ==
    Q(0, 0)

isnan(x) ==
    x.den = 0

RECURSIVE gcd(_, _)
gcd(a, b) ==
    IF b = 0 THEN a ELSE gcd(b, a % b)

Abs(n) ==
    IF n < 0 THEN -n ELSE n

\* the fraction n/d, d > 0, in lowest terms
Frac(n, d) ==
    LET g == gcd(Abs(n), d)
    IN  Q(n \div g, d \div g)

Plus(x, y) ==
    IF isnan(x) \/ isnan(y) THEN NaN
    ELSE Frac(x.num * y.den + y.num * x.den, x.den * y.den)

Less(x, y) ==
    ~isnan(x) /\ ~isnan(y) /\ x.num * y.den < y.num * x.den

LessEqual(x, y) ==
    ~isnan(x) /\ ~isnan(y) /\ x.num * y.den <= y.num * x.den

Greater(x, y) ==
    Less(y, x)

RECURSIVE Sum(_)
Sum(scores) ==
    IF Len(scores) = 0 THEN Q(0, 1) ELSE Plus(scores[1], Sum(Tail(scores)))

\* numpy.nanmean, the mean of the scores that are not NaN
nanmean(scores) ==
    LET kept == SelectSeq(scores, LAMBDA x : ~isnan(x))
        total == Sum(kept)
    IN  IF Len(kept) = 0 THEN NaN ELSE Frac(total.num, total.den * Len(kept))

\* numpy.mean; the mean of nothing is NaN
mean(scores) ==
    LET total == Sum(scores)
    IN  IF Len(scores) = 0 \/ isnan(total) THEN NaN
        ELSE Frac(total.num, total.den * Len(scores))

\* the number of positions of array a that hold class c
CountOf(a, c) ==
    Cardinality({j \in 1..Len(a) : a[j] = c})

\* sklearn.metrics.cohen_kappa_score of two arrays of class predictions of one
\* length n: 1 - (disagreements / n) / (expected disagreements / n), which is
\* (n * agreements - S) / (n * n - S) for S the sum over the classes of the
\* product of the two class counts
cohen_kappa_score(y1, y2) ==
    LET n == Len(y1)
        agreements == Cardinality({j \in 1..n : y1[j] = y2[j]})
        S == CountOf(y1, 0) * CountOf(y2, 0) + CountOf(y1, 1) * CountOf(y2, 1)
    IN  IF n * n - S = 0 THEN NaN ELSE Frac(n * agreements - S, n * n - S)

\* collections.deque without maxlen: append
deque_append_unbounded(dq, x, maxlen) ==
    Append(dq, x)

\* collections.deque(maxlen=maxlen): append, the oldest entry falling out of a
\* full deque
deque_append(dq, x, maxlen) ==
    LET a == Append(dq, x)
    IN  IF Len(a) > maxlen THEN SubSeq(a, Len(a) - maxlen + 1, Len(a)) ELSE a

\* the arrays of predictions over a stop set of three rows and two classes, the
\* arrays of confidences over a stop set of two rows, and the thresholds
Preds ==
    {<<0, 0, 1>>, <<0, 1, 1>>, <<1, 1, 1>>, <<1, 0, 0>>}

Confs ==
    [{1, 2} -> {Q(1, 2), Q(3, 4), Q(1, 1)}]

Thresholds ==
    {Q(0, 1), Q(9, 10), Q(1, 1)}

NoStopper ==
    [kind |-> "none"]

\* the stoppers as their constructors leave them; fed is the history of what
\* the stopper was called with (predictions, or mean confidences)
StabilizingPredictionsStoppers ==
    {[kind |-> "StabilizingPredictionsStopper", windows |-> w, threshold |-> t,
      agreement_scores |-> << >>, prv_stop_set_preds |-> None, fed |-> << >>] :
        w \in 1..MaxWindows, t \in Thresholds}

ChangingConfidenceStoppers ==
    {[kind |-> "ChangingConfidenceStopper", windows |-> w, mode |-> m,
      conf_scores |-> << >>, fed |-> << >>] :
        w \in 1..MaxWindows, m \in {"D", "N"}}

ClassificationChangeStoppers ==
    {[kind |-> "ClassificationChangeStopper", windows |-> w,
      unlabeled_preds |-> << >>, fed |-> << >>] :
        w \in 1..MaxWindows}

\* StabilizingPredictionsStopper.__call__: the stopper after the call and what
\* the call returns
StabilizingPredictionsStopper_call(s, stop_set_preds) ==
    LET agreement ==
            IF s.prv_stop_set_preds = None THEN NaN
            ELSE IF s.prv_stop_set_preds[1] = stop_set_preds THEN Q(1, 1)
            ELSE cohen_kappa_score(s.prv_stop_set_preds[1], stop_set_preds)
        scores == deque_append(s.agreement_scores, agreement, s.windows)
    IN  [stopper |-> [s EXCEPT !.agreement_scores = scores,
                               !.prv_stop_set_preds = Some(stop_set_preds),
                               !.fed = Append(@, stop_set_preds)],
         ret |-> IF Len(scores) < s.windows THEN FALSE
                 ELSE Greater(mean(scores), s.threshold)]

\* ChangingConfidenceStopper.__call__ that looks at the newest mean only
ChangingConfidenceStopper_decide_newest(conf_scores, prv, mode) ==
    LET c == conf_scores[Len(conf_scores)]
    IN  \/ mode = "D" /\ Less(c, prv)
        \/ mode = "N" /\ LessEqual(c, prv)

\* ChangingConfidenceStopper.__call__, its two tests of the window against prv
ChangingConfidenceStopper_decide(conf_scores, prv, mode) ==
    \/ mode = "D" /\ \A j \in 1..Len(conf_scores) : Less(conf_scores[j], prv)
    \/ mode = "N" /\ \A j \in 1..Len(conf_scores) : LessEqual(conf_scores[j], prv)

\* ChangingConfidenceStopper.__call__
ChangingConfidenceStopper_call(s, stop_set_confs) ==
    LET c == mean(stop_set_confs)
    IN  IF Len(s.conf_scores) < s.windows
        THEN [stopper |-> [s EXCEPT !.conf_scores = deque_append(@, c, s.windows),
                                    !.fed = Append(@, c)],
              ret |-> FALSE]
        ELSE
        LET prv == s.conf_scores[1]
            scores == deque_append(Tail(s.conf_scores), c, s.windows)
        IN  [stopper |-> [s EXCEPT !.conf_scores = scores, !.fed = Append(@, c)],
             ret |-> ChangingConfidenceStopper_decide(scores, prv, s.mode)]

\* ClassificationChangeStopper.__call__
ClassificationChangeStopper_call(s, unlabeled_preds) ==
    LET dq == deque_append(s.unlabeled_preds, unlabeled_preds, s.windows)
    IN  [stopper |-> [s EXCEPT !.unlabeled_preds = dq, !.fed = Append(@, unlabeled_preds)],
         ret |-> IF Len(dq) < s.windows THEN FALSE
                 ELSE \A i \in 0..(s.windows - 2) : dq[i + 1] = dq[i + 2]]

\* a call of the stopper, with outcome r
StopperCalled(r) ==
    /\ stopper' = r.stopper
    /\ stopped' = r.ret
    /\ UNCHANGED <<config, learner, pool, disk, evaluator, epool, ret, trace, resumed, uvars>>

StabilizingCall ==
    /\ stopper.kind = "StabilizingPredictionsStopper"
    /\ Len(stopper.fed) < MaxCalls
    /\ \E stop_set_preds \in Preds :
          StopperCalled(StabilizingPredictionsStopper_call(stopper, stop_set_preds))

ChangingConfidenceCall ==
    /\ stopper.kind = "ChangingConfidenceStopper"
    /\ Len(stopper.fed) < MaxCalls
    /\ \E stop_set_confs \in Confs :
          StopperCalled(ChangingConfidenceStopper_call(stopper, <<stop_set_confs[1],
                                                                  stop_set_confs[2]>>))

ClassificationChangeCall ==
    /\ stopper.kind = "ClassificationChangeStopper"
    /\ Len(stopper.fed) < MaxCalls
    /\ \E unlabeled_preds \in Preds :
          StopperCalled(ClassificationChangeStopper_call(stopper, unlabeled_preds))

StopNext ==
    \/ StabilizingCall
    \/ ChangingConfidenceCall
    \/ ClassificationChangeCall

(***************************************************************************)
(* The utility functions, applied to arguments drawn from bounded sets.    *)
(***************************************************************************)
Pending ==
    [err |-> "pending", val |-> 0]

TotalCalls ==
    {[fn |-> "compute_total_al_iterations", n_rows |-> a, n_start |-> b, n_query |-> c] :
        a \in 0..MaxArg, b \in 0..MaxArg, c \in 0..MaxArg}

\* the floats k/4 from -1.0 up, and the totals None, 0, 1, ...
ConvCalls ==
    {[fn |-> "proportion_or_integer_to_int", x |-> Q(k, 4), total |-> t] :
        k \in -4..(4 * MaxCount + 4), t \in {None} \cup {Some(n) : n \in 0..MaxTotal}}

\* file names, with and without a prefix and a suffix, and one that is no number
Names ==
    {<<"3">>, <<"1", "0">>, <<"2">>, <<"0", "3">>, <<"v", "3">>, <<"v", "1", "0", "v">>,
     <<"1", "0", ".", "t">>, <<"x">>}

HighestCalls ==
    {[fn |-> "get_highest_path", files |-> f, lstrip |-> l, rstrip |-> r] :
        f \in UNION {[1..n -> Names] : n \in 0..MaxFiles},
        l \in {<< >>, <<"v">>}, r \in {<< >>, <<"v">>}}

\* the pools of up to MaxRows rows: any rows labeled, in any order, the others
\* unlabeled in ascending order
Pools ==
    UNION {{[num_rows |-> n,
             labeled_idx |-> b,
             unlabeled_idx |-> SelectSeq([j \in 1..n |-> j - 1], LAMBDA i : i \notin Range(b))] :
                b \in UNION {Arrangements(0..(n - 1), k) : k \in 0..n}} :
           n \in 0..MaxRows}

\* a ClasswiseProbsQuerierWrapper over a pool, called for n_query rows
WrapperCalls ==
    {[fn |-> "ClasswiseProbsQuerierWrapper.__call__", pool |-> p, n_query |-> n] :
        p \in Pools, n \in 0..MaxRows}

NoCall ==
    [fn |-> "none"]

UtilInit ==
    /\ ucall \in TotalCalls \cup ConvCalls \cup HighestCalls \cup WrapperCalls
    /\ uret = Pending

\* q, r = divmod(n_rows - n_start, n_query) raises ZeroDivisionError on n_query = 0
CallComputeTotal ==
    /\ ucall.fn = "compute_total_al_iterations"
    /\ uret = Pending
    /\ uret' = IF ucall.n_query = 0
               THEN Raise("ZeroDivisionError")
               ELSE Ok(compute_total_al_iterations(ucall.n_rows, ucall.n_start, ucall.n_query))
    /\ UNCHANGED <<ucall, config, learner, pool, disk, evaluator, epool, ret, trace,
                   resumed, svars>>

CallConvert ==
    /\ ucall.fn = "proportion_or_integer_to_int"
    /\ uret = Pending
    /\ uret' = proportion_or_integer_to_int(ucall.x, ucall.total)
    /\ UNCHANGED <<ucall, config, learner, pool, disk, evaluator, epool, ret, trace,
                   resumed, svars>>

CallGetHighestPath ==
    /\ ucall.fn = "get_highest_path"
    /\ uret = Pending
    /\ uret' = get_highest_path(ucall.files, ucall.lstrip, ucall.rstrip)
    /\ UNCHANGED <<ucall, config, learner, pool, disk, evaluator, epool, ret, trace,
                   resumed, svars>>

\* the wrapper's call: what it returns, what its querier returned, and its pool
\* after the call
CallQuerierWrapper ==
    /\ ucall.fn = "ClasswiseProbsQuerierWrapper.__call__"
    /\ uret = Pending
    /\ \E o \in ClasswiseProbsQuerierWrapper(ucall.n_query, ucall.pool) :
          uret' = [err |-> o.err, val |-> o.val, idx_ |-> o.idx_, pool |-> ucall.pool]
    /\ UNCHANGED <<ucall, config, learner, pool, disk, evaluator, epool, ret, trace,
                   resumed, svars>>

UtilNext ==
    \/ CallComputeTotal
    \/ CallConvert
    \/ CallGetHighestPath
    \/ CallQuerierWrapper

(***************************************************************************)
(* The specifications.                                                     *)
(***************************************************************************)
Init ==
    /\ config \in NewConfigs
    /\ learner = NoLearner
    /\ pool = Pool(0)
    /\ disk = EmptyDisk
    /\ evaluator = NoEvaluator
    /\ epool = Pool(0)
    /\ ret = NoOp
    /\ trace = << >>
    /\ resumed = None
    /\ stopper = NoStopper
    /\ stopped = FALSE
    /\ ucall = NoCall
    /\ uret = Pending

Next ==
    \/ ConfigConfigure
    \/ NewLearner
    \/ LearnerCall
    \/ LearnerNext
    \/ NewEvaluator
    \/ EvaluatorNext

Spec ==
    Init /\ [][Next]_vars

\* the utility functions alone, on every argument of the bounded sets
UtilStart ==
    /\ UtilInit
    /\ config = [n_rows |-> None, n_start |-> Q(1, 10), n_query |-> Q(1, 10),
                 n_iterations |-> Q(1, 1), configured |-> FALSE]
    /\ learner = NoLearner
    /\ pool = Pool(0)
    /\ disk = EmptyDisk
    /\ evaluator = NoEvaluator
    /\ epool = Pool(0)
    /\ ret = NoOp
    /\ trace = << >>
    /\ resumed = None
    /\ stopper = NoStopper
    /\ stopped = FALSE

UtilSpec ==
    UtilStart /\ [][UtilNext]_vars

\* the Learner with the querier and the stopper its caller chose, and its stop
\* hook
LoopNext ==
    \/ ConfigConfigure
    \/ NewLearnerWith
    \/ LearnerCall
    \/ LearnerNext
    \/ LearnerStop

LoopSpec ==
    Init /\ [][LoopNext]_vars

\* the Learner and the resumption of a Learner from the run directory
ResumeNext ==
    \/ ConfigConfigure
    \/ NewLearner
    \/ LearnerCall
    \/ LearnerNext
    \/ LoadFromDisk

ResumeSpec ==
    Init /\ [][ResumeNext]_vars

\* the Learner with calls of its steps raising.  The exception of such a call is
\* caught nowhere: the run ends with it
FaultNext ==
    \/ ~Uncaught /\ ConfigConfigure
    \/ ~Uncaught /\ NewLearner
    \/ ~Uncaught /\ LearnerCall
    \/ ~Uncaught /\ LearnerNext
    \/ ~Uncaught /\ LearnerCallRaises
    \/ ~Uncaught /\ LearnerNextRaises

FaultSpec ==
    Init /\ [][FaultNext]_vars

\* a stopper of stoppers.py alone, called with every array of the bounded sets
StopStart ==
    /\ stopper \in StabilizingPredictionsStoppers \cup ChangingConfidenceStoppers
                     \cup ClassificationChangeStoppers
    /\ stopped = FALSE
    /\ config = [n_rows |-> None, n_start |-> Q(1, 10), n_query |-> Q(1, 10),
                 n_iterations |-> Q(1, 1), configured |-> FALSE]
    /\ learner = NoLearner
    /\ pool = Pool(0)
    /\ disk = EmptyDisk
    /\ evaluator = NoEvaluator
    /\ epool = Pool(0)
    /\ ret = NoOp
    /\ trace = << >>
    /\ resumed = None
    /\ ucall = NoCall
    /\ uret = Pending

StopSpec ==
    StopStart /\ [][StopNext]_vars

(***************************************************************************)
(* Properties.                                                             *)
(***************************************************************************)

\* C1: for n_start < n_rows and n_query >= 1, compute_total_al_iterations
\* returns the least integer q with n_start + q * n_query >= n_rows.
C1_CeilingDivision ==
    (/\ ucall.fn = "compute_total_al_iterations"
     /\ uret # Pending
     /\ ucall.n_start < ucall.n_rows
     /\ ucall.n_query >= 1)
    => /\ uret.err = "none"
       /\ ucall.n_start + uret.val * ucall.n_query >= ucall.n_rows
       /\ ucall.n_start + (uret.val - 1) * ucall.n_query < ucall.n_rows

\* a call whose division leaves a remainder: (6, 1, 2) gives 3
C1_Witness ==
    /\ ucall = [fn |-> "compute_total_al_iterations", n_rows |-> 6, n_start |-> 1, n_query |-> 2]
    /\ uret = Ok(3)

\* C2: a configure call on a configured Config (configured by an earlier call
\* or by the constructor) raises the assertion's error, whatever its argument,
\* and leaves every field of the Config as it was.
C2_ConfigureOnce ==
    [][(config.configured /\ ret'.op = "Config.configure")
        => (ret'.err = "AssertionError" /\ config' = config)]_vars

C2_Witness ==
    /\ config.configured
    /\ ret = Ret("Config.configure", "AssertionError")

\* C3: proportion_or_integer_to_int(x, total), total None or a count >= 0:
\* x >= 1 with no fractional part gives x, with or without a total; otherwise
\* 0 <= x <= 1 with a total gives floor(x * total); every other case raises.
C3_Conversion ==
    (ucall.fn = "proportion_or_integer_to_int" /\ uret # Pending)
    => LET x == ucall.x
           count == x.num >= x.den /\ x.num % x.den = 0
           proportion == ~count /\ 0 <= x.num /\ x.num <= x.den /\ ucall.total # None
       IN  /\ count => (uret.err = "none" /\ uret.val * x.den = x.num)
           /\ proportion => uret = Ok(Floor(Times(x, ucall.total[1])))
           /\ (~count /\ ~proportion) => uret.err = "RuntimeError"

\* (0.5, 5) gives 2
C3_Witness ==
    /\ ucall = [fn |-> "proportion_or_integer_to_int", x |-> Q(2, 4), total |-> Some(5)]
    /\ uret = Ok(2)

\* C4: a configured Config holds an integer n_iterations no greater than the
\* feasible total of its resolved n_rows, n_start and n_query; the configure
\* call that configured it resolved a proportion below 1 as floor(p * total)
\* (total >= 0) and a count as the smaller of the count and the total.
C4_Bounded ==
    config.configured
    => /\ config.n_iterations.den = 1
       /\ config.n_iterations.num <= Total(config)

C4_Resolved ==
    (ret'.op = "Config.configure" /\ ret'.err = "none" /\ ~config.configured)
    => LET raw == config.n_iterations
           total == Total(config')
           n == config'.n_iterations.num
       IN  /\ config'.configured
           /\ (raw.num < raw.den /\ total >= 0) => n = Floor(Times(raw, total))
           /\ (raw.num >= raw.den) => n = Min(raw.num \div raw.den, total)
           /\ ret'.warn => n = total

C4_IterationsWithinTotal ==
    []C4_Bounded /\ [][C4_Resolved]_vars

\* 4 rows, 2 to start, 2 per query: the total is 1, and the call warned that
\* it lowered n_iterations to it
C4_Witness ==
    /\ ret = [op |-> "Config.configure", err |-> "none", warn |-> TRUE]
    /\ config = [n_rows |-> Some(4), n_start |-> Q(2, 1), n_query |-> Q(2, 1),
                 n_iterations |-> Q(1, 1), configured |-> TRUE]

Partition(p) ==
    /\ Range(p.labeled_idx) \cap Range(p.unlabeled_idx) = {}
    /\ Range(p.labeled_idx) \cup Range(p.unlabeled_idx) = 0..(p.num_rows - 1)
    /\ Len(p.labeled_idx) + Len(p.unlabeled_idx) = p.num_rows

\* C5: in every state of the Learner and of the Evaluator the labeled and the
\* unlabeled indices of the pool are disjoint and together are 0..num_rows-1.
C5_Partition ==
    Partition(pool) /\ Partition(epool)

\* both pools wholly labeled, in three batches or more
C5_Witness ==
    /\ learner.iteration >= 3
    /\ pool.num_rows >= 3
    /\ pool.unlabeled_idx = << >>
    /\ evaluator.iteration >= 3
    /\ epool.unlabeled_idx = << >>

\* the indices a batch file holds
FileIndices(i) ==
    Range(loadtxt(disk.batch[i]))

\* C6: after the first run and k advances that returned, the pool holds
\* n_start + k * n_query labeled indices, the batch files are those of the
\* iterations 0..k, of n_start indices for 0 and n_query for the others, pairwise
\* disjoint; the file written by a step holds the indices that step labeled.
C6_Batches ==
    (learner.alive /\ learner.iteration >= 1)
    => LET k == learner.iteration - 1
       IN  /\ Len(pool.labeled_idx) = config.n_start.num + k * config.n_query.num
           /\ DOMAIN disk.batch = 0..k
           /\ \A i \in 0..k :
                Len(disk.batch[i]) = IF i = 0 THEN config.n_start.num ELSE config.n_query.num
           /\ \A i \in 0..k : Cardinality(FileIndices(i)) = Len(disk.batch[i])
           /\ \A i, j \in 0..k : i # j => FileIndices(i) \cap FileIndices(j) = {}

C6_Step ==
    (/\ ret'.op \in {"Learner.__call__", "Learner.__next__"}
     /\ learner'.iteration # learner.iteration)
    => /\ learner'.iteration = learner.iteration + 1
       /\ Range(loadtxt(disk'.batch[learner.iteration]))
            = Range(pool'.labeled_idx) \ Range(pool.labeled_idx)
       /\ \A i \in DOMAIN disk.batch : disk'.batch[i] = disk.batch[i]

C6_BatchFiles ==
    []C6_Batches /\ [][C6_Step]_vars

\* the first run and two advances, one index each or more
C6_Witness ==
    /\ learner.iteration = 3
    /\ config.n_start.num >= 1
    /\ config.n_query.num >= 1
    /\ DOMAIN disk.batch = {0, 1, 2}

\* C7: the first-run call passes its guard exactly when the counter is 0, the
\* advance exactly when it is not 0; a rejected call raises and changes
\* neither the counter, the state, the pool nor the files.
C7_LifecycleGuard ==
    [][/\ ret'.op = "Learner.__call__"
            => IF learner.iteration # 0
               THEN ret'.err = "RuntimeError" /\ UNCHANGED <<learner, pool, disk>>
               ELSE ret'.err # "RuntimeError"
       /\ ret'.op = "Learner.__next__"
            => IF learner.iteration = 0
               THEN ret'.err = "RuntimeError" /\ UNCHANGED <<learner, pool, disk>>
               ELSE ret'.err # "RuntimeError"]_vars

\* a second first-run call, rejected
C7_Witness ==
    /\ learner.iteration >= 1
    /\ ret = Ret("Learner.__call__", "RuntimeError")

\* C8: after the first run an advance raises StopIteration exactly when the
\* counter exceeds n_iterations, a raised StopIteration changes nothing, and
\* every other advance moves the counter on by one, so that StopIteration is
\* reached after finitely many advances.
C8_EndOfSequence ==
    [][(ret'.op = "Learner.__next__" /\ learner.iteration # 0)
        => /\ ret'.err = "StopIteration" <=> learner.iteration > len(config)
           /\ ret'.err = "StopIteration" => UNCHANGED <<learner, pool, disk>>
           /\ ret'.err # "StopIteration" => learner'.iteration = learner.iteration + 1]_vars

\* the parts of C8 that hold: when StopIteration is raised, and that it changes
\* nothing and is raised again by every later advance
C8_StopIterationOnly ==
    [][(ret'.op = "Learner.__next__" /\ learner.iteration # 0)
        => /\ ret'.err = "StopIteration" <=> learner.iteration > len(config)
           /\ ret'.err = "StopIteration" => UNCHANGED <<learner, pool, disk>>
           /\ learner.iteration > len(config) => learner'.iteration > len(config')]_vars

\* the Learner's caller keeps calling: the first run, then the iterator
FairSpec ==
    Spec /\ WF_vars(LearnerCall) /\ WF_vars(LearnerNext)

\* C8, its last part as a liveness property: once the first run is done, some
\* later advance raises StopIteration.  It fails as C8_EndOfSequence does, on
\* the run that stays at the advance the querier rejects.
C8_ReachesStopIteration ==
    (learner.alive /\ learner.iteration >= 1)
        ~> (ret.op = "Learner.__next__" /\ ret.err = "StopIteration")

\* the number of iterations that queried, labeled, trained and persisted
Completed ==
    Cardinality(DOMAIN disk.trainer_output)

\* C9, as claimed: when StopIteration is raised the Learner has completed
\* n_iterations iterations, the first run counted.
C9_ExactlyNIterations ==
    (ret = Ret("Learner.__next__", "StopIteration"))
    => Completed = len(config)

\* C9, amended: when StopIteration is raised the Learner has completed the
\* first run and n_iterations advances, n_iterations + 1 iterations in all.
C9_FirstRunPlusNIterations ==
    (ret = Ret("Learner.__next__", "StopIteration"))
    => /\ Completed = len(config) + 1
       /\ learner.iteration = len(config) + 1

C9_Witness ==
    /\ ret = Ret("Learner.__next__", "StopIteration")
    /\ len(config) >= 2

\* C10: the configuration file and the training-dataset snapshot are written
\* once, by the first run, and by no advance.
C10_WrittenOnce ==
    /\ (~learner.alive \/ learner.iteration = 0)
        => disk.writes = [config |-> 0, tr_dataset |-> 0]
    /\ (learner.alive /\ learner.iteration >= 1)
        => /\ disk.writes = [config |-> 1, tr_dataset |-> 1]
           /\ disk.config = Some(config)
           /\ disk.tr_dataset = Some(pool.num_rows)

C10_Witness ==
    /\ learner.iteration >= 3
    /\ ret = Ret("Learner.__next__", "none")
    /\ disk.writes = [config |-> 1, tr_dataset |-> 1]

\* C11: an Evaluator replaying the run directory has written one metrics file
\* for each iteration it visited, under that iteration's index, from the model
\* the Learner saved under the same index; after visiting iteration i its pool
\* has labeled exactly the rows the Learner had labeled after iteration i; and
\* once the Learner was driven to end-of-sequence and the Evaluator reached its
\* own, the visited iterations are exactly those with a batch file and a
\* model, 0..n_iterations.
C11_Replay ==
    evaluator.alive =>
        /\ DOMAIN disk.test_metrics = 0..(evaluator.iteration - 1)
        /\ \A i \in DOMAIN disk.test_metrics :
              /\ i \in DOMAIN disk.batch
              /\ i \in DOMAIN disk.model
              /\ disk.test_metrics[i] = disk.model[i]
        /\ evaluator.iteration >= 1 =>
              Range(epool.labeled_idx) = disk.model[evaluator.iteration - 1]
        /\ (/\ learner.alive
            /\ next_exhausted(learner, config)
            /\ ret = Ret("Evaluator.__next__", "StopIteration")) =>
              /\ 0..(evaluator.iteration - 1) = DOMAIN disk.batch
              /\ 0..(evaluator.iteration - 1) = DOMAIN disk.model
              /\ evaluator.iteration = len(config) + 1

C11_Witness ==
    /\ learner.alive
    /\ next_exhausted(learner, config)
    /\ evaluator.alive
    /\ evaluator.iteration >= 3
    /\ ret = Ret("Evaluator.__next__", "StopIteration")
    /\ Len(epool.labeled_idx) >= 3

\* the last n entries of a sequence, all of them when it has fewer
LastOf(seq, n) ==
    SubSeq(seq, Len(seq) - Min(n, Len(seq)) + 1, Len(seq))

\* the agreement the k-th call records, from the predictions fed so far
AgreementOf(fed, k) ==
    IF k = 1 THEN NaN
    ELSE IF fed[k] = fed[k - 1] THEN Q(1, 1)
    ELSE cohen_kappa_score(fed[k - 1], fed[k])

\* C12: after every call of a StabilizingPredictionsStopper the window holds the
\* agreements of the last `windows` calls (NaN for the first call, 1.0 for
\* predictions equal to the previous ones, Cohen's kappa otherwise), and the call
\* returned true exactly when the window holds `windows` scores, none of them NaN,
\* whose mean is greater than the threshold.  With windows = 3, threshold = 0.9
\* and the same predictions on every call the agreements are NaN, 1.0, 1.0, ...
\* and the fourth call is the first to return true.
C12_StabilizingPredictions ==
    (stopper.kind = "StabilizingPredictionsStopper" /\ Len(stopper.fed) >= 1) =>
        LET k == Len(stopper.fed)
            w == stopper.windows
            t == stopper.threshold
            scores == [j \in 1..k |-> AgreementOf(stopper.fed, j)]
            window == LastOf(scores, w)
            total == Sum(window)
        IN  /\ stopper.agreement_scores = window
            /\ stopped = (/\ Len(window) = w
                          /\ \A j \in 1..Len(window) : ~isnan(window[j])
                          /\ total.num * t.den > t.num * total.den * w)
            /\ (/\ w = 3
                /\ t = Q(9, 10)
                /\ \A j \in 1..k : stopper.fed[j] = stopper.fed[1]) =>
                  /\ \A j \in 1..k : scores[j] = IF j = 1 THEN NaN ELSE Q(1, 1)
                  /\ stopped = (k >= 4)

C12_Witness ==
    /\ stopper.kind = "StabilizingPredictionsStopper"
    /\ stopper.windows = 3
    /\ stopper.threshold = Q(9, 10)
    /\ Len(stopper.fed) = 4
    /\ \A j \in 1..4 : stopper.fed[j] = stopper.fed[1]
    /\ stopper.agreement_scores = <<Q(1, 1), Q(1, 1), Q(1, 1)>>
    /\ stopped

\* C13: a call of a ClassificationChangeStopper returns true exactly when at
\* least `windows` arrays were fed and each of the last `windows` of them, the
\* current one included, equals its neighbour; with windows = 2, two identical
\* arrays give true on the second call and two differing arrays give false.
C13_ClassificationChange ==
    (stopper.kind = "ClassificationChangeStopper" /\ Len(stopper.fed) >= 1) =>
        LET k == Len(stopper.fed)
            w == stopper.windows
        IN  /\ stopped = (/\ k >= w
                          /\ \A j \in (k - w + 1)..(k - 1) :
                                stopper.fed[j] = stopper.fed[j + 1])
            /\ (w = 2 /\ k = 2) => stopped = (stopper.fed[1] = stopper.fed[2])

\* a third call makes the last two arrays equal after two that differed
C13_Witness ==
    /\ stopper.kind = "ClassificationChangeStopper"
    /\ stopper.windows = 2
    /\ Len(stopper.fed) = 3
    /\ stopper.fed[1] # stopper.fed[2]
    /\ stopper.fed[2] = stopper.fed[3]
    /\ stopped

\* C14: each of the first `windows` calls of a ChangingConfidenceStopper only
\* appends its mean and returns false; every later call drops the oldest mean
\* prv, appends the new one, leaves exactly `windows` means in the window, and
\* returns true exactly when every mean then in the window is below prv (mode
\* "D") or not above it (mode "N").
C14_ChangingConfidence ==
    (stopper.kind = "ChangingConfidenceStopper" /\ Len(stopper.fed) >= 1) =>
        LET k == Len(stopper.fed)
            w == stopper.windows
            fed == stopper.fed
        IN  /\ stopper.conf_scores = LastOf(fed, w)
            /\ k <= w => (~stopped /\ Len(stopper.conf_scores) = k)
            /\ k > w =>
                  /\ Len(stopper.conf_scores) = w
                  /\ stopper.mode = "D" =>
                        stopped = \A j \in (k - w + 1)..k :
                                      fed[j].num * fed[k - w].den < fed[k - w].num * fed[j].den
                  /\ stopper.mode = "N" =>
                        stopped = \A j \in (k - w + 1)..k :
                                      fed[j].num * fed[k - w].den <= fed[k - w].num * fed[j].den

\* confidence falling over four calls with a window of two
C14_Witness ==
    /\ stopper.kind = "ChangingConfidenceStopper"
    /\ stopper.mode = "D"
    /\ stopper.windows = 2
    /\ Len(stopper.fed) = 4
    /\ stopper.fed[3] # stopper.fed[4]
    /\ stopped

\* C15: get_highest_path on a non-empty collection of paths whose stripped stems
\* are all decimal integers returns a path of the collection whose stripped
\* stem has the greatest integer value (of "3", "10", "2" it returns "10"); on an
\* empty collection, or when a stripped stem is no integer, it fails.
C15_HighestPath ==
    (ucall.fn = "get_highest_path" /\ uret # Pending) =>
        LET files == ucall.files
            stripped == [j \in 1..Len(files) |->
                            rstrip(lstrip(stem(files[j]), ucall.lstrip), ucall.rstrip)]
            integers == \A j \in 1..Len(files) : int_str(stripped[j]).err = "none"
        IN  /\ (Len(files) = 0 \/ ~integers) <=> uret.err \in {"IndexError", "ValueError"}
            /\ (Len(files) > 0 /\ integers) =>
                  /\ uret.err = "none"
                  /\ \E j \in 1..Len(files) :
                        /\ uret.val = files[j]
                        /\ \A i \in 1..Len(files) :
                              int_str(stripped[i]).val <= int_str(stripped[j]).val
            /\ files = <<(<<"3">>), (<<"1", "0">>), (<<"2">>)>> =>
                  (uret.err = "none" /\ uret.val = <<"1", "0">>)

C15_Witness ==
    /\ ucall.fn = "get_highest_path"
    /\ ucall.files = <<(<<"3">>), (<<"1", "0">>), (<<"2">>)>>
    /\ uret.err = "none"
    /\ uret.val = <<"1", "0">>

\* C16: for the unlabeled indices u of the pool and the row positions idx_ the
\* wrapped querier returned, ClasswiseProbsQuerierWrapper returns the array whose
\* j-th element is u[idx_[j]] (positions counted from 0): every index returned is
\* unlabeled, the order of the positions is kept, distinct positions give
\* distinct indices, and the pool is as it was before the call.
C16_WrapperMapsPositions ==
    (/\ ucall.fn = "ClasswiseProbsQuerierWrapper.__call__"
     /\ uret # Pending
     /\ uret.err = "none") =>
        LET u == ucall.pool.unlabeled_idx
            n == Len(uret.idx_)
        IN  /\ Len(uret.val) = n
            /\ n = ucall.n_query
            /\ \A j \in 1..n : uret.val[j] = u[uret.idx_[j] + 1]
            /\ \A j \in 1..n : uret.val[j] \in Range(u)
            /\ \A j \in 1..n : uret.val[j] \notin Range(ucall.pool.labeled_idx)
            /\ \A i, j \in 1..n : uret.idx_[i] # uret.idx_[j] => uret.val[i] # uret.val[j]
            /\ uret.pool = ucall.pool

\* two rows asked of a pool with a labeled row, the higher-ranked row later in
\* the pool
C16_Witness ==
    /\ ucall.fn = "ClasswiseProbsQuerierWrapper.__call__"
    /\ uret # Pending
    /\ uret.err = "none"
    /\ Len(uret.val) = 2
    /\ uret.val # uret.idx_
    /\ uret.idx_[1] > uret.idx_[2]
    /\ uret.val[1] > uret.val[2]

\* the learner with the default stopper in the place of its own
WithNullStopper(l) ==
    [l EXCEPT !.stopper = "NullStopper"]

\* the step leaves what the same operation, with one of the query outcomes
\* queried, leaves when the learner's stopper is the NullStopper
SameAsWithNullStopper(queried) ==
    \E q \in queried :
        IF q.err # "none"
        THEN ret'.err = q.err /\ UNCHANGED <<learner, pool, disk>>
        ELSE LET r == iteration_body(WithNullStopper(learner), config, pool, disk, q.val)
             IN  /\ ret'.err = r.err
                 /\ pool' = r.pool
                 /\ disk' = r.disk
                 /\ learner' = [r.learner EXCEPT !.stopper = learner.stopper]

\* C17: the stopper a Learner was given has no part in its loop: the first run
\* and every advance make no call of the stopper and leave it as it was, an
\* advance raises StopIteration exactly when the counter exceeds n_iterations,
\* and counter, labeling and run directory after the step are those the step
\* gives with the NullStopper, whatever the stopper is.
C17_StopperIgnored ==
    [][ret'.op \in {"Learner.__call__", "Learner.__next__"} =>
        /\ \A j \in 1..Len(trace') : trace'[j].fn # "Stopper.__call__"
        /\ learner'.stopper = learner.stopper
        /\ (ret'.op = "Learner.__call__" /\ ~call_rejected(learner)) =>
              /\ ret'.err # "StopIteration"
              /\ SameAsWithNullStopper(query_first(config, pool))
        /\ (ret'.op = "Learner.__next__" /\ ~next_rejected(learner)) =>
              /\ ret'.err = "StopIteration" <=> next_exhausted(learner, config)
              /\ ~next_exhausted(learner, config) =>
                    SameAsWithNullStopper(query(WithNullStopper(learner), config, pool))
      ]_vars

\* a learner whose stopper says stop on every call, two advances done
C17_Witness ==
    /\ learner.alive
    /\ learner.stopper = "Stopper"
    /\ StopperCall(learner.stopper)
    /\ learner.iteration >= 3
    /\ ret = Ret("Learner.__next__", "none")

\* the names of the querier wrappers
Wrappers ==
    {"RandomQuerierWrapper", "ClasswiseProbsQuerierWrapper"}

\* C18: the first run calls no querier wrapper: it calls a RandomQuerier of its
\* own for n_start rows, and its batch is n_start of the rows that were
\* unlabeled; every advance that is let through calls the learner's querier
\* wrapper exactly once, for n_query rows and with the best model of the state
\* the step before it stored (the model that step saved), and calls no other
\* querier.
C18_QuerierDispatch ==
    [][/\ (ret'.op = "Learner.__call__" /\ ~call_rejected(learner)) =>
            /\ Len(trace') >= 1
            /\ trace'[1] = [fn |-> "RandomQuerier", n |-> config.n_start.num, model |-> None]
            /\ \A j \in 1..Len(trace') : trace'[j].fn \notin Wrappers
            /\ \A j \in 2..Len(trace') : trace'[j].fn # "RandomQuerier"
            /\ ret'.err = "none" =>
                  /\ Len(learner'.state[1].batch) = config.n_start.num
                  /\ Range(learner'.state[1].batch) \subseteq Range(pool.unlabeled_idx)
       /\ (/\ ret'.op = "Learner.__next__"
           /\ ~next_rejected(learner)
           /\ ~next_exhausted(learner, config)) =>
            /\ Len(trace') >= 1
            /\ trace'[1] = [fn |-> learner.querier, n |-> config.n_query.num,
                            model |-> Some(learner.state[1].best_model)]
            /\ learner.querier \in Wrappers
            /\ learner.state[1].iteration = learner.iteration
            /\ learner.state[1].best_model = disk.model[learner.iteration - 1]
            /\ \A j \in 2..Len(trace') :
                  trace'[j].fn \notin Wrappers \cup {"RandomQuerier"}
      ]_vars

\* an advance of a learner with an uncertainty querier, asking for n_query rows
\* where the first run asked for another number
C18_Witness ==
    /\ learner.alive
    /\ learner.querier = "ClasswiseProbsQuerierWrapper"
    /\ learner.iteration >= 3
    /\ ret = Ret("Learner.__next__", "none")
    /\ trace[1].fn = "ClasswiseProbsQuerierWrapper"
    /\ trace[1].n = config.n_query.num
    /\ config.n_start.num # config.n_query.num

\* C19: a step of the Learner that completes has queried, labeled, trained,
\* persisted, deleted the checkpoints directory and then advanced the counter,
\* in this order; the directory deleted is that of the iteration the trainer
\* was pointed at and the artifacts were saved under, the counter before the
\* step; and after the step no completed iteration has a checkpoints directory
\* while each has its batch file, its model and its trainer output.
C19_StepOrder ==
    [][(ret'.op \in {"Learner.__call__", "Learner.__next__"} /\ ret'.err = "none") =>
        LET i == learner.iteration
        IN  /\ Len(trace') = 6
            /\ trace'[1].fn \in Wrappers \cup {"RandomQuerier"}
            /\ [j \in 1..5 |-> trace'[j + 1].fn]
                 = <<"Pool.label", "Trainer.train", "Learner.save_to_disk",
                     "shutil.rmtree", "iteration += 1">>
            /\ \A j \in 2..6 : trace'[j].at = i
            /\ learner'.iteration = i + 1
            /\ \A k \in 0..i :
                  /\ k \notin disk'.checkpoints
                  /\ k \in DOMAIN disk'.batch
                  /\ k \in DOMAIN disk'.model
                  /\ k \in DOMAIN disk'.trainer_output
      ]_vars

\* three steps done, the last an advance, no checkpoints directory left
C19_Witness ==
    /\ learner.alive
    /\ learner.iteration = 3
    /\ ret = Ret("Learner.__next__", "none")
    /\ Len(trace) = 6
    /\ trace[5] = Step("shutil.rmtree", 2)
    /\ disk.checkpoints = {}
    /\ DOMAIN disk.model = 0..2

\* C20: Learner.load_from_disk without an iteration, on the run directory of a
\* learner that completed the iterations 0..k, returns a learner whose pool has
\* labeled the rows of the batch files of the iterations before its counter,
\* whose best model is the model saved last, that of iteration k, and whose
\* labeled rows are the rows that model was trained on.
C20_ResumesFromHighest ==
    [][(/\ ret'.op = "Learner.load_from_disk"
        /\ trace'[1].iteration = None
        /\ learner.alive
        /\ learner.iteration >= 1
        /\ DOMAIN disk.model = 0..(learner.iteration - 1)
        /\ disk.checkpoints = {}) =>
            LET k == learner.iteration - 1
            IN  /\ ret'.err = "none"
                /\ resumed' # None
                /\ Range(resumed'[1].pool.labeled_idx)
                     = UNION {FileIndices(i) : i \in 0..(resumed'[1].learner.iteration - 1)}
                /\ resumed'[1].learner.state[1].best_model = disk.model[k]
                /\ Range(resumed'[1].pool.labeled_idx) = disk.model[k]
      ]_vars

\* C21: every advance the loop lets through is feasible: with a configured
\* Config, n_query >= 1 and n_start <= n_rows, whenever the counter of the
\* learner is between 1 and n_iterations the pool has at least n_query
\* unlabeled rows, so the querier is not asked for more rows than there are.
C21_Feasible ==
    (/\ learner.alive
     /\ config.configured
     /\ config.n_query.num >= 1
     /\ config.n_start.num <= config.n_rows[1]
     /\ 1 <= learner.iteration
     /\ learner.iteration <= len(config)) =>
        Len(pool.unlabeled_idx) >= config.n_query.num

\* the rows a failed step moved: labeled after it, not before it
MovedBy(before, after) ==
    Range(after.labeled_idx) \ Range(before.labeled_idx)

\* C22: a step of the Learner changes the counter and the stored LearnerState
\* only when querying, labeling, training, persistence and the post-hook have
\* all succeeded, and the counter then grows by exactly 1; a step that raises
\* leaves both as they were; and a step that raises in training or in
\* persistence has already moved the queried batch to the labeled rows of the
\* pool, which is not rolled back.
C22_FailedStep ==
    [][ret'.op \in {"Learner.__call__", "Learner.__next__"} =>
        /\ (learner'.iteration # learner.iteration \/ learner'.state # learner.state) =>
              /\ ret'.err = "none"
              /\ Len(trace') = 6
              /\ [j \in 1..5 |-> trace'[j + 1].fn]
                   = <<"Pool.label", "Trainer.train", "Learner.save_to_disk",
                       "shutil.rmtree", "iteration += 1">>
              /\ learner'.iteration = learner.iteration + 1
        /\ ret'.err # "none" =>
              /\ learner'.iteration = learner.iteration
              /\ learner'.state = learner.state
        /\ (/\ ret'.err # "none"
            /\ Len(trace') \in {3, 4}
            /\ trace'[Len(trace')].fn \in {"Trainer.train", "Learner.save_to_disk"}) =>
              /\ Len(pool'.labeled_idx) = Len(pool.labeled_idx) + trace'[1].n
              /\ Cardinality(MovedBy(pool, pool')) = trace'[1].n
              /\ Range(pool'.unlabeled_idx) = Range(pool.unlabeled_idx) \ MovedBy(pool, pool')
              /\ \A j \in 1..Len(pool.labeled_idx) :
                    pool'.labeled_idx[j] = pool.labeled_idx[j]
      ]_vars

\* next(learner) at counter 1 raised while the model was saved: the counter is 1
\* and the state is that of the zeroth iteration, and the pool has labeled more
\* rows than the state's batch
C22_Witness ==
    /\ learner.alive
    /\ learner.iteration = 1
    /\ learner.state # None
    /\ learner.state[1].iteration = 1
    /\ ret = Ret("Learner.__next__", "OSError")
    /\ Len(trace) = 4
    /\ trace[4] = Step("Learner.save_to_disk", 1)
    /\ 1 \in DOMAIN disk.batch
    /\ 1 \notin DOMAIN disk.model
    /\ Len(pool.labeled_idx) > Len(learner.state[1].batch)

====
